---- MODULE Spec2Model ----
(***************************************************************************)
(* A model of the HttpClient of react-advanced-logger (src/unnamed/part_001)*)
(* and of its logger (src/src/logger.ts).                                  *)
(*                                                                         *)
(* The client is single-threaded JavaScript.  A run of the caller's code   *)
(* is a sequence of public calls; the promise jobs these calls queue (the  *)
(* request interceptors of the requests made, the rejections of the        *)
(* requests aborted) run when the caller's code has returned and before    *)
(* any timer or network event: that is the action Microtasks.  A timer     *)
(* callback, a network answer or a browser event is one action, with the   *)
(* promise jobs that follow it.                                            *)
(*                                                                         *)
(* axios is the transport.  What the model takes from it: this.instance(c) *)
(* merges the instance defaults into c at the call and queues the request  *)
(* interceptors; these run last registered first, so the client's (circuit *)
(* gate, token) runs before axios-retry's; then dispatchRequest, which     *)
(* throws the reason of an already cancelled token before calling the      *)
(* adapter; then the response interceptors in the order of registration:   *)
(* axios-retry's, then the client's.  A rejection raised by the request    *)
(* interceptor or by dispatchRequest is handed to the rejection handlers   *)
(* of the response interceptors like any other failure.  Of the rejections *)
(* queued in one run, that of dispatchRequest reaches them first (it is    *)
(* thrown two jobs after the call); that of the request interceptor and    *)
(* that of a request aborted at the transport take the same number of jobs,*)
(* so they reach the handlers in the order of the calls that caused them.  *)
(*                                                                         *)
(* axios-retry (lines 49-52) is registered on the same instance: a network *)
(* error to any request, or a 5xx answer to an idempotent one (get, put,   *)
(* delete), whose config has been retried less than config.retries times   *)
(* is retried, after a delay, by calling the instance with the same config *)
(* again; a timeout is not.  axios-retry takes the time already spent and  *)
(* the delay off config.timeout, and does not retry when nothing is left.  *)
(* The retry is a request of its own, which passes the client's            *)
(* interceptors again, and its outcome is the outcome of axios-retry's     *)
(* handler; so the client's response handlers run once for the retry and   *)
(* once more, with what they returned, for every attempt around it.        *)
(***************************************************************************)
EXTENDS Integers, Sequences, FiniteSets, TLC

(* ------------------------------ bounds -------------------------------- *)
\* request slots; a settled slot can be used for a new request
NumReq == 2
\* Date.now() at construction, and the last instant the model looks at
StartTime == 3
MaxTime == 6
\* config.circuitBreakerThreshold and config.circuitBreakerCooldown, set small
circuitBreakerThreshold == 2
circuitBreakerCooldown == 2
\* config.retries, set small
retries == 1
\* failureCount is not bounded by the code; the model stops counting here
MaxFailures == 4
\* the attempts around a request are not bounded by the code (a retry that is
\* queued offline without its config is replayed with a new one); the model
\* stops nesting here
MaxDepth == 1
\* throttleRequest: the calls made and the largest limitMs passed
MaxThrottleCalls == 3
MaxLimit == 2
\* debounceGet: the calls made and the largest wait passed
MaxDebounceCalls == 2
MaxWait == 2
\* enqueueRequest: the calls made, and config.rateLimitDelay, set small
MaxEnqueue == 4
rateLimitDelay == 2
\* fetchAllPages: the largest page count the server reports, the largest limit
MaxPages == 4
MaxPageSize == 3
\* the credentials there are: what refreshToken() resolves with, what
\* tokenProvider() returns and what setHeader is given are among 1..NumTokens
NumTokens == 2
\* the logger: the log calls made
MaxLogs == 2
\* the logger: the config.batchSize set by the application
SmallBatch == 2
\* the logger: the log calls made when only its batching is looked at
MaxBatchLogs == 5
\* the logger: the log calls made when only its history is looked at
MaxHistoryLogs == 103

Req == 1..NumReq

Tokens == 1..NumTokens
\* tokenProvider is absent or returns nothing; no Authorization header
NoToken == 0

(* --------------------------- configuration ---------------------------- *)
\* typeof window !== 'undefined': the client runs in a browser
inBrowser == TRUE
\* config.refreshToken is set
hasRefreshToken == TRUE

(* ------------------------------- state -------------------------------- *)
VARIABLES
    pc,                 \* per request: where its promise stands
    cfg,                \* per request: the config its next submission uses
    token,              \* per request: the cancel token of its original config
    outcome,            \* per request: what its caller was given
    failureCount,
    circuitOpen,
    circuitOpenedAt,
    isRefreshing,
    refreshSubscribers, \* the requests whose callbacks wait for the token
    offlineQueue,       \* the requests whose replay thunks are queued
    cancelTokenSources, \* the sources in the registry, named by their request
    online,             \* navigator.onLine
    now,                \* Date.now()
    sent,               \* the requests the last step handed to the transport
    authHeader,         \* per request: the Authorization header of its config
    providerToken,      \* what config.tokenProvider() returns now
    defaultHeader,      \* instance.defaults.headers.common['Authorization']
    retryCount,         \* per request: config['axios-retry'].retryCount
    depth,              \* per request: the attempts around the current one
    owner,              \* per request: who called this.instance for it
    method,             \* per request: the method of its config
    timeout,            \* per request: the timeout of its config
    jobs,               \* the requests a promise job is queued for, in call order
    lastRequestTime,
    thTimers,           \* throttleRequest: the pending setTimeout callbacks
    thCalls,            \* throttleRequest: each call's time and limitMs
    thDispatched,       \* throttleRequest: when each call's requestFn ran
    debounceMap,        \* key -> {timeoutId, promise}, or NoEntry
    dbTimers,           \* debounceGet: the pending setTimeout callbacks
    dbCalls,            \* debounceGet: each call's key, time, wait and returned promise
    dbGets,             \* debounceGet: the GETs of the timers handed to the transport
    queue,              \* the rate-limit queue: the thunks, named by their number
    isProcessingQueue,
    quTimers,           \* processQueue's pending timers: the time each has left
    quCount,            \* enqueueRequest calls so far
    quInvoked,          \* the thunks invoked, in the order of their invocation
    quSince,            \* the time since the last invocation, up to rateLimitDelay
    quPromise,          \* per enqueueRequest call: where its promise stands
    pgPc,               \* fetchAllPages: idle, awaiting a page, done or failed
    pgPage,
    pgResults,
    pgTotalPages,
    pgServer,           \* the x-total-pages header the server sends ("" when none)
    pgLimit,
    pgRequests,         \* the page requests of the running call handed to the transport
    config,             \* the logger's config
    silentMode,
    historyBuffer,
    batchBuffer,
    lgCount,            \* the logger: log calls so far
    lgConsole,          \* the logger: the entries the last step wrote to the console
    lgServer,           \* the logger: the batches the last step passed to sendToServer
    lgSentEver,         \* the logger: the entries passed to sendToServer before that
    lgLogged,           \* the logger: the entries accepted since the history was cleared
    lgCopy              \* the logger: the array the last step's getHistory returned

httpVars == <<pc, cfg, token, outcome, failureCount, circuitOpen, circuitOpenedAt,
              isRefreshing, refreshSubscribers, offlineQueue, cancelTokenSources,
              online, now, sent, authHeader, providerToken, defaultHeader,
              retryCount, depth, owner, method, timeout, jobs>>

throttleVars == <<lastRequestTime, thTimers, thCalls, thDispatched>>

debounceVars == <<debounceMap, dbTimers, dbCalls, dbGets>>

queueVars == <<queue, isProcessingQueue, quTimers, quCount, quInvoked, quSince,
               quPromise>>

pageVars == <<pgPc, pgPage, pgResults, pgTotalPages, pgServer, pgLimit, pgRequests>>

loggerVars == <<config, silentMode, historyBuffer, batchBuffer, lgCount, lgConsole,
                lgServer, lgSentEver, lgLogged, lgCopy>>

vars == <<httpVars, throttleVars, debounceVars, queueVars, pageVars, loggerVars>>

(* --------------------------- error objects ---------------------------- *)
\* status 0 stands for "no response" (error.response is undefined)
NoStatus == 0

CircuitMessage == "Circuit breaker open - request blocked"

errorMessages ==
    [s \in {400, 401, 403, 404, 500} |->
        CASE s = 400 -> "Bad Request"
          [] s = 401 -> "Unauthorized. Please log in again."
          [] s = 403 -> "Forbidden"
          [] s = 404 -> "Not found"
          [] s = 500 -> "Server error. Try again later."]

\* what the transport gives in place of a status when no answer came within
\* the instance's timeout (line 44)
TimedOut == -1

\* config.timeout: what the instance was created with (line 46), or what
\* axios-retry left of it for a retry
InstanceTimeout == "10000"

LoweredTimeout == "less than 10000"

\* the message of the transport's timeout error, which names config.timeout
TimeoutMessage(t) ==
    IF t = InstanceTimeout THEN "timeout of 10000ms exceeded"
    ELSE "timeout of less than 10000ms exceeded"

\* the rejection of the request interceptor: a bare {message}
CircuitError ==
    [status |-> NoStatus, message |-> CircuitMessage, code |-> "none", config |-> "none"]

\* the reason of a cancelled token: a Cancel with a message and no config
CancelError(msg) ==
    [status |-> NoStatus, message |-> msg, code |-> "none", config |-> "none"]

\* what the transport rejects with: an AxiosError carrying the request's
\* config and a code; without a response when the network failed or the
\* timeout t passed
TransportError(st, c, t) ==
    [status |-> IF st = TimedOut THEN NoStatus ELSE st,
     message |-> CASE st = TimedOut -> TimeoutMessage(t)
                   [] st = NoStatus -> "Network Error"
                   [] OTHER -> "Request failed",
     code |-> CASE st = TimedOut -> "ECONNABORTED"
                [] st = NoStatus -> "ERR_NETWORK"
                [] OTHER -> "ERR_BAD_RESPONSE",
     config |-> c]

NoOutcome == [kind |-> "none", message |-> "", status |-> NoStatus, shape |-> "none"]

Response == [kind |-> "response", message |-> "", status |-> 200, shape |-> "response"]

\* lines 158-160: the normalized error
NormalizedError(e) ==
    [kind |-> "error",
     message |-> IF e.status \in DOMAIN errorMessages THEN errorMessages[e.status]
                 ELSE e.message,
     status |-> e.status,
     shape |-> "normalized"]

\* what config.refreshToken rejected with, passed on as it is (line 147)
RefreshError ==
    [kind |-> "error", message |-> "refresh failed", status |-> NoStatus, shape |-> "raw"]

\* a rejection the client handed on, as the handler of the attempt around it
\* reads it: the object has no response and no config (lines 125, 158)
HandedOn(o) ==
    [status |-> NoStatus, message |-> o.message, code |-> "none", config |-> "none"]

(* ------------------------ who made the request ------------------------ *)
\* get, post, put, patch, delete, upload, ... called by the application
App == [kind |-> "app", key |-> <<>>, promise |-> 0]

\* this.get called by fetchAllPages (line 247)
PageOwner == [kind |-> "page", key |-> <<>>, promise |-> 0]

\* this.instance.get called by the timer t of debounceGet (line 211)
DebounceOwner(t) == [kind |-> "debounce", key |-> t.key, promise |-> t.promise]

(* ------------------- pagination: what the loop reads ------------------ *)
Digits == <<"0", "1", "2", "3", "4", "5", "6", "7", "8", "9">>

IsDigit(c) == \E d \in DOMAIN Digits : Digits[d] = c

DigitValue(c) == (CHOOSE d \in DOMAIN Digits : Digits[d] = c) - 1

\* String(n) of a number n >= 0, as the sequence of its characters
RECURSIVE DecimalString(_)
DecimalString(n) ==
    IF n < 10 THEN <<Digits[n + 1]>>
    ELSE Append(DecimalString(n \div 10), Digits[(n % 10) + 1])

\* parseInt(str, 10) on a string without sign or leading blanks: the number
\* its leading digits spell, NaN when it starts with none
RECURSIVE LeadingDigits(_, _)
LeadingDigits(str, acc) ==
    IF str = <<>> \/ ~IsDigit(Head(str)) THEN acc
    ELSE LeadingDigits(Tail(str), 10 * acc + DigitValue(Head(str)))

ParseInt(str) ==
    IF str = <<>> \/ ~IsDigit(Head(str)) THEN [nan |-> TRUE, value |-> 0]
    ELSE [nan |-> FALSE, value |-> LeadingDigits(str, 0)]

\* res.headers['x-total-pages'] || '1': a missing or empty header reads '1'
HeaderOrDefault(h) == IF h = <<>> THEN <<"1">> ELSE h

\* PageWithin with < for <=
PageBelow(page, total) == ~total.nan /\ page < total.value

\* page <= totalPages, which is false for NaN
PageWithin(page, total) == ~total.nan /\ page <= total.value

\* the items of a page: limit of them, named by page and position
ServerData(page, limit) == [i \in 1..limit |-> <<page, i>>]

\* the headers a server may send on every response
ServerHeaders ==
    {<<>>, <<"x">>, <<"2", "x">>} \cup {DecimalString(n) : n \in 0..MaxPages}

(* ------------------- the client's state as one value ------------------ *)
St == [pc |-> pc, cfg |-> cfg, token |-> token, outcome |-> outcome,
       failureCount |-> failureCount, circuitOpen |-> circuitOpen,
       circuitOpenedAt |-> circuitOpenedAt, isRefreshing |-> isRefreshing,
       refreshSubscribers |-> refreshSubscribers, offlineQueue |-> offlineQueue,
       cancelTokenSources |-> cancelTokenSources, online |-> online, now |-> now,
       sent |-> <<>>, authHeader |-> authHeader, providerToken |-> providerToken,
       defaultHeader |-> defaultHeader, retryCount |-> retryCount, depth |-> depth,
       owner |-> owner, method |-> method, timeout |-> timeout, jobs |-> jobs,
       pgPc |-> pgPc, pgPage |-> pgPage, pgResults |-> pgResults,
       pgTotalPages |-> pgTotalPages, pgServer |-> pgServer, pgLimit |-> pgLimit,
       pgRequests |-> pgRequests, dbGets |-> dbGets]

\* the state s becomes the client's; the rest of debounceGet's state is left
\* to the action
CommitClient(s) ==
    /\ s.failureCount <= MaxFailures
    /\ \A r \in Req : s.depth[r] <= MaxDepth
    /\ pc' = s.pc
    /\ cfg' = s.cfg
    /\ token' = s.token
    /\ outcome' = s.outcome
    /\ failureCount' = s.failureCount
    /\ circuitOpen' = s.circuitOpen
    /\ circuitOpenedAt' = s.circuitOpenedAt
    /\ isRefreshing' = s.isRefreshing
    /\ refreshSubscribers' = s.refreshSubscribers
    /\ offlineQueue' = s.offlineQueue
    /\ cancelTokenSources' = s.cancelTokenSources
    /\ online' = s.online
    /\ now' = s.now
    /\ sent' = s.sent
    /\ authHeader' = s.authHeader
    /\ providerToken' = s.providerToken
    /\ defaultHeader' = s.defaultHeader
    /\ retryCount' = s.retryCount
    /\ depth' = s.depth
    /\ owner' = s.owner
    /\ method' = s.method
    /\ timeout' = s.timeout
    /\ jobs' = s.jobs
    /\ pgPc' = s.pgPc
    /\ pgPage' = s.pgPage
    /\ pgResults' = s.pgResults
    /\ pgTotalPages' = s.pgTotalPages
    /\ pgServer' = s.pgServer
    /\ pgLimit' = s.pgLimit
    /\ pgRequests' = s.pgRequests
    /\ dbGets' = s.dbGets
    /\ UNCHANGED <<throttleVars, queueVars, loggerVars>>

Commit(s) ==
    /\ CommitClient(s)
    /\ UNCHANGED <<debounceMap, dbTimers, dbCalls>>

\* the requests made whose request interceptor has not run
pending == SelectSeq(jobs, LAMBDA r : pc[r] = "created")

\* the requests aborted at the transport, not yet rejected
aborted == SelectSeq(jobs, LAMBDA r : pc[r] = "aborted")

\* no promise job is waiting: the caller's code has returned and the jobs it
\* queued have run, so a timer, an answer or an event can be handled
Quiet == jobs = <<>>

(* --------------------------- circuit breaker -------------------------- *)
\* isCircuitOpen(): the answer, and the state it leaves
IsCircuitOpen(s) ==
    IF ~s.circuitOpen THEN [open |-> FALSE, st |-> s]
    ELSE IF s.now - s.circuitOpenedAt > circuitBreakerCooldown
         THEN [open |-> FALSE,
               st |-> [s EXCEPT !.circuitOpen = FALSE, !.failureCount = 0]]
         ELSE [open |-> TRUE, st |-> s]

OpenCircuit(s) == [s EXCEPT !.circuitOpen = TRUE, !.circuitOpenedAt = s.now]

(* ---------------------------- interceptors ---------------------------- *)
RECURSIVE Submit(_, _), ResponseError(_, _, _)

\* a new config in slot r, made by a call of this.instance.get, .post, ...
\* (method m): the instance defaults are merged into it at the call
NewRequest(s, r, tok, own, m) ==
    [s EXCEPT !.pc[r] = "created", !.cfg[r] = "orig", !.token[r] = tok,
              !.outcome[r] = NoOutcome, !.authHeader[r] = s.defaultHeader,
              !.retryCount[r] = 0, !.depth[r] = 0, !.owner[r] = own,
              !.method[r] = m, !.timeout[r] = InstanceTimeout]

\* lines 248-251 and the next turn of the loop, or the return: fetchAllPages
\* goes on after the awaited get of request r has settled with o
PageContinue(s, r, o) ==
    IF o.kind # "response" THEN [s EXCEPT !.pgPc = "failed"]
    ELSE LET total == ParseInt(HeaderOrDefault(s.pgServer))
             page == s.pgPage + 1
             s1 == [s EXCEPT !.pgResults = @ \o ServerData(s.pgPage, s.pgLimit),
                             !.pgTotalPages = total,
                             !.pgPage = page]
         IN  IF PageWithin(page, total)
             THEN Submit(NewRequest(s1, r, "none", PageOwner, "get"), r)
             ELSE [s1 EXCEPT !.pgPc = "done"]

\* the promise this.instance returned to the caller of request r settles;
\* the request's config is no longer used
Finish(s, r, o) ==
    LET s1 == [s EXCEPT !.pc[r] = IF o.kind = "response" THEN "resolved" ELSE "rejected",
                        !.outcome[r] = o,
                        !.cfg[r] = "orig",
                        !.authHeader[r] = NoToken,
                        !.retryCount[r] = 0,
                        !.method[r] = "get",
                        !.timeout[r] = InstanceTimeout]
    IN  IF s.owner[r].kind = "page" THEN PageContinue(s1, r, o) ELSE s1

\* the client's handler rejects with o: the caller's promise is rejected, or,
\* when the attempt was a retry, the rejection handler of the attempt around
\* it runs with o
Reject(s, r, o) ==
    IF s.depth[r] = 0 THEN Finish(s, r, o)
    ELSE ResponseError([s EXCEPT !.depth[r] = @ - 1], r, HandedOn(o))

\* the rejection handler of the response interceptor (lines 121-165), for
\* request r and error e
ResponseError(s, r, e) ==
    LET s1 == [s EXCEPT !.failureCount = @ + 1]
        s2 == IF s1.failureCount >= circuitBreakerThreshold THEN OpenCircuit(s1) ELSE s1
    IN  IF inBrowser /\ ~s2.online
        THEN [s2 EXCEPT !.offlineQueue = Append(@, r),
                        !.pc[r] = "offq",
                        !.cfg[r] = e.config,
                        !.method[r] = IF e.config = "none" THEN "get" ELSE @,
                        !.timeout[r] = IF e.config = "none" THEN InstanceTimeout ELSE @]
        ELSE IF e.status = 401 /\ hasRefreshToken /\ ~s2.isRefreshing
        THEN [s2 EXCEPT !.isRefreshing = TRUE,
                        !.pc[r] = "refreshing",
                        !.cfg[r] = e.config]
        ELSE IF e.status = 401 /\ s2.isRefreshing
        THEN [s2 EXCEPT !.refreshSubscribers = Append(@, r),
                        !.pc[r] = "waiting",
                        !.cfg[r] = e.config]
        ELSE Reject(s2, r, NormalizedError(e))

\* ResponseSuccess that also closes the breaker
RECURSIVE ResponseSuccessCloses(_, _)
ResponseSuccessCloses(s, r) ==
    LET s1 == [s EXCEPT !.failureCount = 0, !.circuitOpen = FALSE]
    IN  IF s1.depth[r] = 0 THEN Finish(s1, r, Response)
        ELSE ResponseSuccessCloses([s1 EXCEPT !.depth[r] = @ - 1], r)

\* the fulfilment handler of the response interceptor (lines 110-119); when
\* the attempt was a retry, the handler of the attempt around it runs next,
\* with the response it returned
RECURSIVE ResponseSuccess(_, _)
ResponseSuccess(s, r) ==
    LET s1 == [s EXCEPT !.failureCount = 0]
    IN  IF s1.depth[r] = 0 THEN Finish(s1, r, Response)
        ELSE ResponseSuccess([s1 EXCEPT !.depth[r] = @ - 1], r)

\* the methods axios-retry takes for idempotent, among those the client uses
IdempotentMethods == {"get", "put", "delete"}

\* axios-retry's default retryCondition for an error to a request of method
\* m: a network error (no response, a code, not that of a timeout), or no
\* response or a 5xx answer to an idempotent request, a timeout apart
Retryable(e, m) ==
    \/ e.status = NoStatus /\ e.code \notin {"none", "ECONNABORTED"}
    \/ /\ m \in IdempotentMethods
       /\ e.code # "ECONNABORTED"
       /\ e.status = NoStatus \/ e.status \in 500..599

\* the rejection handlers of the response interceptors, for request r and
\* error e: axios-retry's (lines 49-52), which counts the retry, takes the
\* time the attempt took and the delay off config.timeout (shouldResetTimeout
\* is not set) and, when some is left, retries the config the error carries
\* after the delay; or else hands the error to the client's
AxiosRetry(s, r, e, left) ==
    IF e.config # "none" /\ Retryable(e, s.method[r]) /\ s.retryCount[r] < retries
    THEN IF left
         THEN [s EXCEPT !.retryCount[r] = @ + 1,
                        !.depth[r] = @ + 1,
                        !.pc[r] = "retrywait",
                        !.cfg[r] = e.config,
                        !.timeout[r] = LoweredTimeout]
         ELSE ResponseError([s EXCEPT !.retryCount[r] = @ + 1], r, e)
    ELSE ResponseError(s, r, e)

\* the Authorization header request r is submitted with.  this.instance
\* takes the header of the config it is called with, or the instance default
\* of the moment of the call when the config has none (a config of undefined
\* has none): for a new request that was in NewRequest, for a config
\* submitted again the call is in the same run as this.  Then the request
\* interceptor writes tokenProvider()'s token, when there is one, over it
\* (lines 99-100)
AttachToken(s, r) ==
    LET given == IF s.pc[r] = "created" THEN s.authHeader[r]
                 ELSE IF s.cfg[r] = "none" \/ s.authHeader[r] = NoToken
                 THEN s.defaultHeader ELSE s.authHeader[r]
    IN  [s EXCEPT !.authHeader[r] =
            IF s.providerToken # NoToken THEN s.providerToken ELSE given]

\* the record of a hand-over to the transport kept for the caller of r: the
\* GET of a debounce timer, the page of fetchAllPages.  A replay with a config
\* of undefined is no longer that request.
Record(s, r) ==
    IF s.cfg[r] # "orig" THEN s
    ELSE IF s.owner[r].kind = "debounce"
    THEN [s EXCEPT !.dbGets = Append(@, [key |-> s.owner[r].key,
                                          promise |-> s.owner[r].promise,
                                          at |-> s.now,
                                          attempt |-> s.retryCount[r]])]
    ELSE IF s.owner[r].kind = "page"
    THEN [s EXCEPT !.pgRequests = Append(@, [page |-> s.pgPage,
                                              attempt |-> s.retryCount[r]])]
    ELSE s

\* What follows the request interceptor for request r, which found the
\* breaker open or not: the rejection handlers, or dispatchRequest.  A config
\* of undefined ("none") is replaced by axios with an empty one, which has
\* not been retried and whose method is get.
Dispatch(s, r, open) ==
    IF open THEN AxiosRetry(s, r, CircuitError, TRUE)
    ELSE IF s.cfg[r] = "orig" /\ s.token[r] \notin {"none", "live"}
    THEN AxiosRetry(AttachToken(s, r), r, CancelError(s.token[r]), TRUE)
    ELSE [Record(AttachToken(s, r), r) EXCEPT
                   !.pc[r] = "inflight",
                   !.retryCount[r] = IF s.cfg[r] = "none" THEN 0 ELSE @,
                   !.method[r] = IF s.cfg[r] = "none" THEN "get" ELSE @,
                   !.timeout[r] = IF s.cfg[r] = "none" THEN InstanceTimeout ELSE @,
                   !.cfg[r] = IF @ = "none" THEN "blank" ELSE @,
                   !.sent = Append(@, r)]

RECURSIVE DispatchAll(_, _, _)
DispatchAll(s, q, open) ==
    IF q = <<>> THEN s ELSE DispatchAll(Dispatch(s, Head(q), open), Tail(q), open)

\* this.instance(config) called for the requests of q, in this order, in one
\* run: the request interceptor runs for all of them, in order, before any of
\* them is dispatched or rejected.  isCircuitOpen changes the state on its
\* first call at most and answers the same for all.
SubmitAll(s, q) ==
    IF q = <<>> THEN s
    ELSE LET g == IsCircuitOpen(s) IN DispatchAll(g.st, q, g.open)

\* this.instance(config) of request r
Submit(s, r) == SubmitAll(s, <<r>>)

(* ---------------------------- cancellation ---------------------------- *)
\* cancelTokenSources is a Set: no duplicates, iterated in insertion order.
\* A source is named by the slot of the request it was made for, and a slot
\* is not used again while its source is registered.
Registered(reg, r) == \E i \in DOMAIN reg : reg[i] = r

\* source.cancel(msg) of request r's source: a second cancel does nothing; a
\* request at the transport is aborted, and its rejection with the reason is
\* a promise job
SourceCancel(s, r, msg) ==
    IF s.token[r] # "live" THEN s
    ELSE LET s1 == [s EXCEPT !.token[r] = msg]
         IN  IF s1.pc[r] = "inflight" /\ s1.cfg[r] = "orig"
             THEN [s1 EXCEPT !.pc[r] = "aborted", !.jobs = Append(@, r)]
             ELSE s1

\* this.cancelTokenSources.delete(source)
DeleteSource(s, r) ==
    [s EXCEPT !.cancelTokenSources = SelectSeq(@, LAMBDA x : x # r)]

\* this.cancelTokenSources.forEach(source => source.cancel('Canceled by user'))
RECURSIVE CancelAll(_, _)
CancelAll(s, q) ==
    IF q = <<>> THEN s
    ELSE CancelAll(SourceCancel(s, Head(q), "Canceled by user"), Tail(q))

\* the promise jobs of the requests of q, in this order: the rejection of a
\* request aborted at the transport reaches the rejection handlers with the
\* reason of its token; a request made passes the request interceptor, which
\* found the breaker open or not
RECURSIVE RunJobs(_, _, _)
RunJobs(s, q, open) ==
    IF q = <<>> THEN s
    ELSE LET r == Head(q)
         IN  RunJobs(IF s.pc[r] = "aborted"
                     THEN AxiosRetry(s, r, CancelError(s.token[r]), TRUE)
                     ELSE Dispatch(s, r, open),
                     Tail(q), open)

(* ------------------------------ actions ------------------------------- *)
Settled(r) == pc[r] \in {"idle", "resolved", "rejected"}

\* the slot a new request is put in: the first that holds no request under
\* way and no registered source
Free(r) ==
    /\ Settled(r) /\ ~Registered(cancelTokenSources, r)
    /\ \A q \in 1..(r - 1) : ~(Settled(q) /\ ~Registered(cancelTokenSources, q))

\* the methods of the requests the client's public functions make
Methods == {"get", "post", "put", "patch", "delete"}

\* get(url), getWithParams, download (method get), post(url, data), upload
\* (method post), put, patch, delete: a new request in slot r; its request
\* interceptor is a promise job
Request(r, m) ==
    /\ Free(r)
    /\ Commit([NewRequest(St, r, "none", App, m) EXCEPT !.jobs = Append(@, r)])

\* cancelableRequest(url): a new request in slot r with a registered cancel
\* source
CancelableRequest(r) ==
    /\ Free(r)
    /\ Commit([NewRequest(St, r, "live", App, "get") EXCEPT
                   !.jobs = Append(@, r),
                   !.cancelTokenSources = Append(@, r)])

\* the cancel function cancelableRequest returned for request r
Cancel(r) ==
    /\ token[r] = "live" \/ Registered(cancelTokenSources, r)
    /\ Commit(DeleteSource(SourceCancel(St, r, "Request canceled"), r))

CancelAllRequests ==
    /\ Commit([CancelAll(St, cancelTokenSources) EXCEPT !.cancelTokenSources = <<>>])

\* setHeader('Authorization', 'Bearer ' + t)
SetHeader(t) ==
    /\ t # defaultHeader
    /\ Commit([St EXCEPT !.defaultHeader = t])

\* what tokenProvider() reads (a store the application keeps) changes
SetProviderToken(t) ==
    /\ t # providerToken
    /\ Commit([St EXCEPT !.providerToken = t])

\* the promise jobs queued by the caller's code, which has returned.  The
\* request interceptors of the requests made run before any rejection is
\* handled.  With the breaker closed the requests made are dispatched, and
\* one whose token is found cancelled at dispatch reaches the rejection
\* handlers before a request aborted at the transport does.  With the breaker
\* open the requests made are blocked, and blocked and aborted requests reach
\* the rejection handlers in the order of the calls.
Microtasks ==
    /\ ~Quiet
    /\ LET s0 == [St EXCEPT !.jobs = <<>>]
           g == IF pending = <<>> THEN [open |-> FALSE, st |-> s0] ELSE IsCircuitOpen(s0)
       IN  Commit(RunJobs(g.st, IF g.open THEN jobs ELSE pending \o aborted, g.open))

\* the transport answers request r
Respond(r, st, left) ==
    /\ Quiet
    /\ pc[r] = "inflight"
    /\ Commit(IF st = 200 THEN ResponseSuccess(St, r)
              ELSE AxiosRetry(St, r, TransportError(st, cfg[r], timeout[r]), left))

\* the timer of axios-retry for request r: this.instance(config) again
RetryFires(r) ==
    /\ Quiet
    /\ pc[r] = "retrywait"
    /\ Commit(Submit(St, r))

\* config.refreshToken() resolves: lines 142-145 and onTokenRefreshed.  The
\* waiters' requests are resubmitted in the order they registered, then the
\* initiator's; none of them can register a waiter in this run.
RefreshResolves(r, newToken) ==
    /\ Quiet
    /\ pc[r] = "refreshing"
    /\ LET again == Append(refreshSubscribers, r)
           isAgain(q) == \E i \in DOMAIN again : again[i] = q
           s1 == [St EXCEPT !.isRefreshing = FALSE, !.refreshSubscribers = <<>>,
                            !.authHeader = [q \in Req |-> IF isAgain(q) THEN newToken
                                                          ELSE @[q]]]
       IN  Commit(SubmitAll(s1, again))

\* config.refreshToken() rejects: lines 146-148
RefreshRejects(r) ==
    /\ Quiet
    /\ pc[r] = "refreshing"
    /\ Commit(Reject(St, r, RefreshError))

GoOffline ==
    /\ Quiet
    /\ online
    /\ Commit([St EXCEPT !.online = FALSE])

\* the 'online' event: retryOfflineQueue
RetryOfflineQueue(s) ==
    SubmitAll([s EXCEPT !.offlineQueue = <<>>], s.offlineQueue)

GoOnline ==
    /\ Quiet
    /\ ~online
    /\ Commit(RetryOfflineQueue([St EXCEPT !.online = TRUE]))

Tick ==
    /\ Quiet
    /\ now < MaxTime
    /\ Commit([St EXCEPT !.now = @ + 1])

(* ------------------------------ throttle ------------------------------ *)
\* ThrottleDelay with the time already waited taken for the time still to wait
ThrottleDelayElapsed(limitMs, diff) == diff

\* the delay handed to setTimeout (line 231)
ThrottleDelay(limitMs, diff) == limitMs - diff

\* throttleRequest(requestFn, limitMs); the call is numbered n
ThrottleRequest(limitMs) ==
    LET n == Len(thCalls) + 1
        diff == now - lastRequestTime
    IN  /\ n <= MaxThrottleCalls
        /\ thCalls' = Append(thCalls, [at |-> now, limitMs |-> limitMs])
        /\ IF diff >= limitMs
           THEN /\ lastRequestTime' = now
                /\ thDispatched' = Append(thDispatched, [call |-> n, at |-> now])
                /\ UNCHANGED thTimers
           ELSE /\ thTimers' = thTimers \cup
                        {[call |-> n, due |-> now + ThrottleDelay(limitMs, diff)]}
                /\ UNCHANGED <<lastRequestTime, thDispatched>>
        /\ UNCHANGED <<httpVars, debounceVars, queueVars, pageVars, loggerVars>>

\* the setTimeout callback of a delayed call (lines 228-231); a timer runs at
\* or after the time it was set for
ThrottleTimerFires(t) ==
    /\ t \in thTimers
    /\ now >= t.due
    /\ thTimers' = thTimers \ {t}
    /\ lastRequestTime' = now
    /\ thDispatched' = Append(thDispatched, [call |-> t.call, at |-> now])
    /\ UNCHANGED <<httpVars, debounceVars, queueVars, pageVars, loggerVars, thCalls>>

(* ------------------------------ debounce ------------------------------ *)
Urls == {"/search", "/users"}
\* config?.params: absent, or {q: 'a'}
ParamsSet == {"absent", "q=a"}

\* JSON.stringify(config?.params || {})
StringifyParams(params) == IF params = "absent" THEN "{}" ELSE "{\"q\":\"a\"}"

\* url + JSON.stringify(...): the two parts of the concatenation
DebounceKey(url, params) == <<url, StringifyParams(params)>>

DebounceKeys == {DebounceKey(u, p) : u \in Urls, p \in ParamsSet}

NoEntry == [timeoutId |-> 0, promise |-> 0]

\* clearTimeout(id): the timer, if it is still pending, never runs
ClearTimeout(timers, id) == {t \in timers : t.id # id}

\* debounceGet(url, {params}, wait); the promise and the timer a call makes
\* are numbered by the call
DebounceGet(url, params, wait) ==
    LET key == DebounceKey(url, params)
        existing == debounceMap[key]
        n == Len(dbCalls) + 1
    IN  /\ n <= MaxDebounceCalls
        /\ IF existing # NoEntry
           THEN /\ dbTimers' = ClearTimeout(dbTimers, existing.timeoutId)
                /\ dbCalls' = Append(dbCalls, [key |-> key, at |-> now, wait |-> wait,
                                               promise |-> existing.promise])
                /\ UNCHANGED debounceMap
           ELSE /\ dbTimers' = dbTimers \cup
                        {[id |-> n, key |-> key, promise |-> n, due |-> now + wait]}
                /\ debounceMap' = [debounceMap EXCEPT
                                       ![key] = [timeoutId |-> n, promise |-> n]]
                /\ dbCalls' = Append(dbCalls, [key |-> key, at |-> now, wait |-> wait,
                                               promise |-> n])
        /\ sent' = <<>>
        /\ UNCHANGED <<pc, cfg, token, outcome, failureCount, circuitOpen,
                       circuitOpenedAt, isRefreshing, refreshSubscribers,
                       offlineQueue, cancelTokenSources, online, now, authHeader,
                       providerToken, defaultHeader, retryCount, depth, owner,
                       method, timeout, jobs>>
        /\ UNCHANGED <<throttleVars, queueVars, pageVars, loggerVars, dbGets>>


\* the setTimeout callback (lines 210-213): the GET is made, as a new request
\* in slot r, and the entry goes
DebounceTimerFires(t, r) ==
    /\ Quiet
    /\ t \in dbTimers
    /\ now >= t.due
    /\ Free(r)
    /\ dbTimers' = dbTimers \ {t}
    /\ debounceMap' = [debounceMap EXCEPT ![t.key] = NoEntry]
    /\ UNCHANGED dbCalls
    /\ CommitClient(Submit(NewRequest(St, r, "none", DebounceOwner(t), "get"), r))

(* -------------------------- rate-limit queue -------------------------- *)
\* The queue code reads no clock: its timers are kept by the time they have
\* left, and QueueTick is the passing of one unit of time.
QueueSt == [queue |-> queue, isProcessingQueue |-> isProcessingQueue,
            quTimers |-> quTimers, quInvoked |-> quInvoked, quSince |-> quSince,
            quPromise |-> quPromise]

QueueCommit(q) ==
    /\ queue' = q.queue
    /\ isProcessingQueue' = q.isProcessingQueue
    /\ quTimers' = q.quTimers
    /\ quInvoked' = q.quInvoked
    /\ quSince' = q.quSince
    /\ quPromise' = q.quPromise
    /\ UNCHANGED <<httpVars, throttleVars, debounceVars, pageVars, loggerVars>>

\* processQueue that lowers isProcessingQueue as soon as the queue is drained
\* instead of leaving that to the timer callback that finds it empty
ProcessQueueIdleWhenDrained(q, throws) ==
    IF q.queue = <<>> THEN [q EXCEPT !.isProcessingQueue = FALSE]
    ELSE LET q1 == [q EXCEPT !.isProcessingQueue = Tail(q.queue) # <<>>,
                             !.queue = Tail(@),
                             !.quInvoked = Append(@, Head(q.queue)),
                             !.quSince = 0]
         IN  IF throws THEN [q1 EXCEPT !.quPromise[Head(q.queue)] = "thrown"]
             ELSE [q1 EXCEPT !.quPromise[Head(q.queue)] = "running",
                             !.quTimers = Append(@, rateLimitDelay)]

\* processQueue(): invoke the head and set the timer for the next.  The thunk
\* calls requestFn; when that throws instead of returning a promise, the
\* exception leaves processQueue at line 186: the head has been taken off,
\* isProcessingQueue is true and no timer is set
ProcessQueue(q, throws) ==
    IF q.queue = <<>> THEN [q EXCEPT !.isProcessingQueue = FALSE]
    ELSE LET q1 == [q EXCEPT !.isProcessingQueue = TRUE,
                             !.queue = Tail(@),
                             !.quInvoked = Append(@, Head(q.queue)),
                             !.quSince = 0]
         IN  IF throws THEN [q1 EXCEPT !.quPromise[Head(q.queue)] = "thrown"]
             ELSE [q1 EXCEPT !.quPromise[Head(q.queue)] = "running",
                             !.quTimers = Append(@, rateLimitDelay)]

\* enqueueRequest(requestFn): the executor of the returned promise.  throws
\* says whether requestFn, if it is called in this run, throws; an exception
\* that leaves the executor rejects the returned promise
EnqueueRequest(throws) ==
    /\ quCount < MaxEnqueue
    /\ throws => ~isProcessingQueue
    /\ quCount' = quCount + 1
    /\ LET n == quCount + 1
           q1 == [QueueSt EXCEPT !.queue = Append(@, n),
                                 !.quPromise = Append(@, "queued")]
           q2 == IF ~q1.isProcessingQueue THEN ProcessQueue(q1, throws) ELSE q1
       IN  QueueCommit([q2 EXCEPT !.quPromise[n] = IF @ = "thrown" THEN "rejected" ELSE @])

\* the callback of the timer set on line 187; a timer runs once its time is
\* up.  throws says whether the requestFn called in this run throws; nothing
\* catches the exception, and the promise of that call stays pending
DrainTimerFires(i, throws) ==
    /\ i \in DOMAIN quTimers
    /\ quTimers[i] = 0
    /\ throws => queue # <<>>
    /\ LET q1 == [QueueSt EXCEPT !.quTimers =
                      [k \in 1..(Len(@) - 1) |-> IF k < i THEN @[k] ELSE @[k + 1]]]
       IN  QueueCommit(ProcessQueue(q1, throws))
    /\ UNCHANGED quCount

\* the promise requestFn() returned settles: then(resolve).catch(reject)
ThunkSettles(n, how) ==
    /\ n \in DOMAIN quPromise
    /\ quPromise[n] = "running"
    /\ QueueCommit([QueueSt EXCEPT !.quPromise[n] = how])
    /\ UNCHANGED quCount

QueueTick ==
    /\ QueueCommit([QueueSt EXCEPT
                        !.quTimers = [k \in DOMAIN @ |-> IF @[k] > 0 THEN @[k] - 1 ELSE 0],
                        !.quSince = IF @ < rateLimitDelay THEN @ + 1 ELSE @])
    /\ UNCHANGED quCount

(* ----------------------------- pagination ----------------------------- *)
\* fetchAllPages(url, {}, 'page', 'limit', limit) up to its first await: the
\* get of page 1 is a new request in slot r.  The server sends the same
\* header on every response.
FetchAllPages(header, limit, r) ==
    /\ pgPc \in {"idle", "done", "failed"}
    /\ Free(r)
    /\ Commit([NewRequest(St, r, "none", PageOwner, "get") EXCEPT
                   !.jobs = Append(@, r),
                   !.pgServer = header,
                   !.pgLimit = limit,
                   !.pgPage = 1,
                   !.pgResults = <<>>,
                   !.pgTotalPages = [nan |-> FALSE, value |-> 1],
                   !.pgRequests = <<>>,
                   !.pgPc = "awaiting"])

(* ------------------------------- logger ------------------------------- *)
LEVELS == <<"debug", "info", "warn", "error", "timer">>

\* LEVELS.indexOf(level)
IndexOf(level) == (CHOOSE i \in DOMAIN LEVELS : LEVELS[i] = level) - 1

\* the history buffer holds this many entries (line 87)
HistoryLimit == 100
\* config.batchSize || 10 (line 97)
DefaultBatchSize == 10

\* an absent tag, an absent currentEnv, an absent batchSize
NoTag == ""
NoEnv == ""
NoBatchSize == 0

Tags == {"Redux", "User"}

\* lines 45-51; the fields the default leaves out are absent
DefaultConfig ==
    [enabled |-> TRUE, envs |-> {"development"}, minLevel |-> "debug",
     allowedTags |-> <<>>, batch |-> FALSE, batchSize |-> NoBatchSize,
     sendToServer |-> FALSE, currentEnv |-> NoEnv]

\* what logger.config is called with: one field and its value
ConfigChanges ==
    [enabled : BOOLEAN] \cup [currentEnv : {NoEnv, "production"}]
        \cup [minLevel : {"debug", "warn"}]
        \cup [allowedTags : {<<>>, <<"Redux">>}]
        \cup [batch : BOOLEAN]
        \cup [sendToServer : BOOLEAN]

LoggerSt == [config |-> config, silentMode |-> silentMode,
             historyBuffer |-> historyBuffer, batchBuffer |-> batchBuffer,
             lgConsole |-> <<>>, lgServer |-> <<>>]

\* the numbers of the entries in a sequence of batches
EntriesOf(batches) ==
    UNION {{batches[b][i].n : i \in DOMAIN batches[b]} : b \in DOMAIN batches}

\* no array is held by a caller
NoCopy == [ref |-> "none", items |-> <<>>]

LoggerCommit(l) ==
    /\ lgCopy' = NoCopy
    /\ config' = l.config
    /\ silentMode' = l.silentMode
    /\ historyBuffer' = l.historyBuffer
    /\ batchBuffer' = l.batchBuffer
    /\ lgConsole' = l.lgConsole
    /\ lgServer' = l.lgServer
    /\ lgSentEver' = lgSentEver \cup EntriesOf(lgServer)
    /\ UNCHANGED <<httpVars, throttleVars, debounceVars, queueVars, pageVars>>

Includes(seq, x) == \E i \in DOMAIN seq : seq[i] = x

\* shouldLog without the test of silentMode
ShouldLogWhenSilent(l, level, tag) ==
    IF ~l.config.enabled THEN FALSE
    ELSE IF (IF l.config.currentEnv # NoEnv THEN l.config.currentEnv ELSE "development")
                \notin l.config.envs THEN FALSE
    ELSE IF IndexOf(level) < IndexOf(l.config.minLevel) THEN FALSE
    ELSE IF Len(l.config.allowedTags) # 0 /\ tag # NoTag
                /\ ~Includes(l.config.allowedTags, tag) THEN FALSE
    ELSE TRUE

\* shouldLog(level, tag)
ShouldLog(l, level, tag) ==
    IF ~l.config.enabled \/ l.silentMode THEN FALSE
    ELSE IF (IF l.config.currentEnv # NoEnv THEN l.config.currentEnv ELSE "development")
                \notin l.config.envs THEN FALSE
    ELSE IF IndexOf(level) < IndexOf(l.config.minLevel) THEN FALSE
    ELSE IF Len(l.config.allowedTags) # 0 /\ tag # NoTag
                /\ ~Includes(l.config.allowedTags, tag) THEN FALSE
    ELSE TRUE

\* log that passes the batch on and leaves it in the buffer
LogKeepingBatch(l, level, tag, n) ==
    IF ~ShouldLog(l, level, tag) THEN l
    ELSE LET entry == [level |-> level, tag |-> tag, n |-> n]
             pushed == Append(l.historyBuffer, entry)
             l1 == [l EXCEPT !.historyBuffer = IF Len(pushed) > HistoryLimit
                                                THEN Tail(pushed) ELSE pushed,
                             !.lgConsole = Append(@, entry)]
             size == IF l.config.batchSize # NoBatchSize THEN l.config.batchSize
                     ELSE DefaultBatchSize
         IN  IF l1.config.batch /\ l1.config.sendToServer
             THEN LET buffered == Append(l1.batchBuffer, entry)
                  IN  IF Len(buffered) >= size
                      THEN [l1 EXCEPT !.lgServer = Append(@, buffered),
                                      !.batchBuffer = Tail(buffered)]
                      ELSE [l1 EXCEPT !.batchBuffer = buffered]
             ELSE IF l1.config.sendToServer
             THEN [l1 EXCEPT !.lgServer = Append(@, <<entry>>)]
             ELSE l1

\* log({level, message, tag}) as the n-th log call: lines 66-104
Log(l, level, tag, n) ==
    IF ~ShouldLog(l, level, tag) THEN l
    ELSE LET entry == [level |-> level, tag |-> tag, n |-> n]
             pushed == Append(l.historyBuffer, entry)
             l1 == [l EXCEPT !.historyBuffer = IF Len(pushed) > HistoryLimit
                                                THEN Tail(pushed) ELSE pushed,
                             !.lgConsole = Append(@, entry)]
             size == IF l.config.batchSize # NoBatchSize THEN l.config.batchSize
                     ELSE DefaultBatchSize
         IN  IF l1.config.batch /\ l1.config.sendToServer
             THEN LET buffered == Append(l1.batchBuffer, entry)
                  IN  IF Len(buffered) >= size
                      THEN [l1 EXCEPT !.lgServer = Append(@, buffered),
                                      !.batchBuffer = <<>>]
                      ELSE [l1 EXCEPT !.batchBuffer = buffered]
             ELSE IF l1.config.sendToServer
             THEN [l1 EXCEPT !.lgServer = Append(@, <<entry>>)]
             ELSE l1

\* logger.debug/info/warn/error(msg, meta, {tag})
LogCall(level, tag) ==
    /\ lgCount' = lgCount + 1
    /\ lgLogged' = lgLogged \o Log(LoggerSt, level, tag, lgCount + 1).lgConsole
    /\ LoggerCommit(Log(LoggerSt, level, tag, lgCount + 1))

\* logger.timer(label).end(): a 'timer' entry without a tag
TimerEnd ==
    /\ lgCount' = lgCount + 1
    /\ lgLogged' = lgLogged \o Log(LoggerSt, "timer", NoTag, lgCount + 1).lgConsole
    /\ LoggerCommit(Log(LoggerSt, "timer", NoTag, lgCount + 1))

\* logger.config(newConfig): the fields given replace the current ones
Configure(newConfig) ==
    /\ LoggerCommit([LoggerSt EXCEPT !.config =
            [k \in DOMAIN @ |-> IF k \in DOMAIN newConfig THEN newConfig[k] ELSE @[k]]])
    /\ UNCHANGED <<lgCount, lgLogged>>

Silent(mode) ==
    /\ LoggerCommit([LoggerSt EXCEPT !.silentMode = mode])
    /\ UNCHANGED <<lgCount, lgLogged>>

ClearHistory ==
    /\ LoggerCommit([LoggerSt EXCEPT !.historyBuffer = <<>>])
    /\ lgLogged' = <<>>
    /\ UNCHANGED lgCount

\* an array that is the history buffer itself
SameArray(buffer) == [ref |-> "buffer", items |-> buffer]

\* [...historyBuffer]: a new array with the buffer's entries
CopyOf(buffer) == [ref |-> "fresh", items |-> buffer]

\* logger.getHistory(); the caller holds the array until the logger is called
\* again
GetHistory ==
    /\ lgCopy' = CopyOf(historyBuffer)
    /\ lgConsole' = <<>>
    /\ lgServer' = <<>>
    /\ lgSentEver' = lgSentEver \cup EntriesOf(lgServer)
    /\ UNCHANGED <<config, silentMode, historyBuffer, batchBuffer, lgCount, lgLogged>>
    /\ UNCHANGED <<httpVars, throttleVars, debounceVars, queueVars, pageVars>>

\* the caller changes the array getHistory returned: pop() or length = 0.  An
\* array changes wherever it is referred to.
MutateCopy(op) ==
    /\ lgCopy.ref # "none"
    /\ lgCopy.items # <<>>
    /\ LET items == IF op = "pop" THEN SubSeq(lgCopy.items, 1, Len(lgCopy.items) - 1)
                    ELSE <<>>
       IN  /\ lgCopy' = [lgCopy EXCEPT !.items = items]
           /\ historyBuffer' = IF lgCopy.ref = "buffer" THEN items ELSE historyBuffer
    /\ lgConsole' = <<>>
    /\ lgServer' = <<>>
    /\ lgSentEver' = lgSentEver \cup EntriesOf(lgServer)
    /\ UNCHANGED <<config, silentMode, batchBuffer, lgCount, lgLogged>>
    /\ UNCHANGED <<httpVars, throttleVars, debounceVars, queueVars, pageVars>>

(* --------------------------- specification ---------------------------- *)
Init ==
    /\ config = DefaultConfig
    /\ silentMode = FALSE
    /\ historyBuffer = <<>>
    /\ batchBuffer = <<>>
    /\ lgCount = 0
    /\ lgConsole = <<>>
    /\ lgServer = <<>>
    /\ lgSentEver = {}
    /\ lgLogged = <<>>
    /\ lgCopy = NoCopy
    /\ queue = <<>>
    /\ isProcessingQueue = FALSE
    /\ quTimers = <<>>
    /\ quCount = 0
    /\ quInvoked = <<>>
    /\ quSince = rateLimitDelay
    /\ quPromise = <<>>
    /\ pgPc = "idle"
    /\ pgPage = 1
    /\ pgResults = <<>>
    /\ pgTotalPages = [nan |-> FALSE, value |-> 1]
    /\ pgServer = <<>>
    /\ pgLimit = 1
    /\ pgRequests = <<>>
    /\ debounceMap = [k \in DebounceKeys |-> NoEntry]
    /\ dbTimers = {}
    /\ dbCalls = <<>>
    /\ dbGets = <<>>
    /\ lastRequestTime = 0
    /\ thTimers = {}
    /\ thCalls = <<>>
    /\ thDispatched = <<>>
    /\ pc = [r \in Req |-> "idle"]
    /\ cfg = [r \in Req |-> "orig"]
    /\ token = [r \in Req |-> "none"]
    /\ outcome = [r \in Req |-> NoOutcome]
    /\ failureCount = 0
    /\ circuitOpen = FALSE
    /\ circuitOpenedAt = 0
    /\ isRefreshing = FALSE
    /\ refreshSubscribers = <<>>
    /\ offlineQueue = <<>>
    /\ cancelTokenSources = <<>>
    /\ online = TRUE
    /\ now = StartTime
    /\ sent = <<>>
    /\ authHeader = [r \in Req |-> NoToken]
    /\ providerToken = NoToken
    /\ defaultHeader = NoToken
    /\ retryCount = [r \in Req |-> 0]
    /\ depth = [r \in Req |-> 0]
    /\ owner = [r \in Req |-> App]
    /\ method = [r \in Req |-> "get"]
    /\ timeout = [r \in Req |-> InstanceTimeout]
    /\ jobs = <<>>

Statuses == {200, 401, 500, NoStatus, TimedOut}

\* the credential refreshToken() resolves with when the server issues one only
IssuedToken == NumTokens

\* the whole client, used through its plain request functions
Next ==
    \/ \E r \in Req, m \in Methods : Request(r, m)
    \/ Microtasks
    \/ \E r \in Req, st \in Statuses, left \in BOOLEAN : Respond(r, st, left)
    \/ \E r \in Req : RetryFires(r)
    \/ \E r \in Req : RefreshResolves(r, IssuedToken)
    \/ \E r \in Req : RefreshRejects(r)
    \/ GoOffline
    \/ GoOnline
    \/ Tick
    \/ \E t \in Tokens : SetHeader(t)

Spec == Init /\ [][Next]_vars

\* the client used through get, with time standing still (the breaker opens
\* and stays open), against a server that answers every request
RefreshNext ==
    \/ \E r \in Req : Request(r, "get")
    \/ Microtasks
    \/ \E r \in Req, st \in {200, 401, 500}, left \in BOOLEAN : Respond(r, st, left)
    \/ \E r \in Req : RetryFires(r)
    \/ \E r \in Req : RefreshResolves(r, IssuedToken)
    \/ \E r \in Req : RefreshRejects(r)
    \/ GoOffline
    \/ GoOnline

RefreshSpec == Init /\ [][RefreshNext]_vars

\* a method axios-retry takes for idempotent and one it does not
SomeMethods == {"get", "post"}

\* the client used through get and post, against a server that asks for no
\* credential
BreakerNext ==
    \/ \E r \in Req, m \in SomeMethods : Request(r, m)
    \/ Microtasks
    \/ \E r \in Req, st \in {200, 500, TimedOut}, left \in BOOLEAN : Respond(r, st, left)
    \/ \E r \in Req : RetryFires(r)
    \/ GoOffline
    \/ GoOnline
    \/ Tick

BreakerSpec == Init /\ [][BreakerNext]_vars

\* the client used through get, post and cancelableRequest, against a server
\* that asks for no credential
CancelNext ==
    \/ \E r \in Req, m \in SomeMethods : Request(r, m)
    \/ \E r \in Req : CancelableRequest(r)
    \/ \E r \in Req : Cancel(r)
    \/ CancelAllRequests
    \/ Microtasks
    \/ \E r \in Req, st \in {200, 500}, left \in BOOLEAN : Respond(r, st, left)
    \/ \E r \in Req : RetryFires(r)
    \/ GoOffline
    \/ GoOnline
    \/ Tick

CancelSpec == Init /\ [][CancelNext]_vars

\* the same client, with a tokenProvider whose answer changes over time, a
\* refreshToken that resolves with any credential and an application that
\* sets the default Authorization header
TokenNext ==
    \/ \E r \in Req, m \in SomeMethods : Request(r, m)
    \/ Microtasks
    \/ \E r \in Req, st \in {200, 401}, left \in BOOLEAN : Respond(r, st, left)
    \/ \E r \in Req : RefreshRejects(r)
    \/ \E r \in Req, t \in Tokens : RefreshResolves(r, t)
    \/ \E t \in Tokens \cup {NoToken} : SetProviderToken(t)
    \/ \E t \in Tokens : SetHeader(t)

TokenSpec == Init /\ [][TokenNext]_vars

\* throttleRequest alone, with time passing
ThrottleNext ==
    \/ \E limitMs \in 1..MaxLimit : ThrottleRequest(limitMs)
    \/ \E t \in thTimers : ThrottleTimerFires(t)
    \/ Tick

ThrottleSpec == Init /\ [][ThrottleNext]_vars

\* debounceGet, with time passing and the transport answering the GETs
DebounceNext ==
    \/ \E u \in Urls, p \in ParamsSet, w \in 1..MaxWait : DebounceGet(u, p, w)
    \/ \E t \in dbTimers, r \in Req : DebounceTimerFires(t, r)
    \/ \E r \in Req, st \in {200, 500}, left \in BOOLEAN : Respond(r, st, left)
    \/ \E r \in Req : RetryFires(r)
    \/ Tick

DebounceSpec == Init /\ [][DebounceNext]_vars

\* enqueueRequest alone, with time passing; a timer whose time is up runs, and
\* time does not stop
QueueNext ==
    \/ \E throws \in BOOLEAN : EnqueueRequest(throws)
    \/ \E i \in DOMAIN quTimers, throws \in BOOLEAN : DrainTimerFires(i, throws)
    \/ \E n \in DOMAIN quPromise, how \in {"resolved", "rejected"} : ThunkSettles(n, how)
    \/ QueueTick

QueueSpec ==
    /\ Init /\ [][QueueNext]_vars
    /\ WF_vars(\E i \in DOMAIN quTimers, throws \in BOOLEAN : DrainTimerFires(i, throws))
    /\ WF_vars(QueueTick)

\* fetchAllPages, against a server that sends the same header every time it
\* answers 200, with time passing
PageNext ==
    \/ \E h \in ServerHeaders, l \in 1..MaxPageSize, r \in Req : FetchAllPages(h, l, r)
    \/ Microtasks
    \/ \E r \in Req, st \in {200, 500}, left \in BOOLEAN : Respond(r, st, left)
    \/ \E r \in Req : RetryFires(r)
    \/ Tick

PageSpec == Init /\ [][PageNext]_vars

\* the logger alone, for MaxLogs log calls
LoggerNext ==
    \/ lgCount < MaxLogs
          /\ \E level \in {"debug"}, tag \in Tags \cup {NoTag} : LogCall(level, tag)
    \/ lgCount < MaxLogs /\ TimerEnd
    \/ \E c \in ConfigChanges : Configure(c)
    \/ \E mode \in BOOLEAN : Silent(mode)
    \/ ClearHistory

LoggerSpec == Init /\ [][LoggerNext]_vars

\* the logger's batching alone: more log calls, all of them accepted, while
\* batch, batchSize and sendToServer change
BatchChanges ==
    [batch : BOOLEAN] \cup [batchSize : {NoBatchSize, SmallBatch, SmallBatch + 1}]
        \cup [sendToServer : BOOLEAN]

BatchNext ==
    \/ lgCount < MaxBatchLogs /\ LogCall("debug", NoTag)
    \/ \E c \in BatchChanges : Configure(c)

BatchSpec == Init /\ [][BatchNext]_vars

\* the history buffer is one entry short of full, or full
NearFull == Len(historyBuffer) >= HistoryLimit - 1

\* the logger's history alone: enough log calls to fill the buffer and go
\* past it; the logger is silenced and minLevel is raised only once the buffer
\* is nearly full
HistoryNext ==
    \/ lgCount < MaxHistoryLogs /\ LogCall("debug", NoTag)
    \/ ClearHistory
    \/ \E mode \in BOOLEAN : (mode => NearFull) /\ Silent(mode)
    \/ \E c \in [minLevel : {"debug", "warn"}] :
          (c.minLevel = "warn" => NearFull) /\ Configure(c)
    \/ GetHistory
    \/ \E op \in {"pop", "clear"} : MutateCopy(op)

HistorySpec == Init /\ [][HistoryNext]_vars

(* ===================== properties of the client ======================= *)
RefreshInFlight == {r \in Req : pc[r] = "refreshing"}

\* the breaker has opened and its cooldown has not elapsed since
BreakerHolding == circuitOpen /\ now - circuitOpenedAt < circuitBreakerCooldown

\* C1: once failureCount has reached the threshold, a request issued before
\* the cooldown has elapsed since the breaker opened is rejected with the
\* circuit-open error, and the transport is not invoked for it: the step in
\* which its request interceptor runs hands nothing to the transport and
\* rejects it.
C1_CircuitGateRejects ==
    [][\A r \in Req :
          (BreakerHolding /\ Microtasks /\ Registered(pending, r)) =>
              /\ sent' = <<>>
              /\ pc'[r] = "rejected"
              /\ outcome'[r].message = CircuitMessage]_vars

\* at most one refreshToken() is in flight
SingleFlight == Cardinality(RefreshInFlight) <= 1

\* C2: at most one refreshToken() is in flight at any time, and a request whose
\* 401 is handled while a refresh is in flight registers a waiter and starts
\* no second refresh.
C2_SingleFlightRefresh ==
    /\ []SingleFlight
    /\ [][\A r \in Req :
            (RefreshInFlight # {} /\ \E left \in BOOLEAN : Respond(r, 401, left)) =>
                /\ RefreshInFlight' = RefreshInFlight
                /\ pc'[r] = "waiting"
                /\ refreshSubscribers' = Append(refreshSubscribers, r)]_vars

\* C3: every request that waits for the refresh settles with its outcome, when
\* the refresh succeeds and when it fails: no waiter is left pending once the
\* refresh it waited for has completed.
C3_NoWaiterLeftPending ==
    \A r \in Req : pc[r] = "waiting" => RefreshInFlight # {}

\* C6: a request that fails while offline (and is not left to be retried) is
\* queued with its promise pending, and the online signal hands every queued
\* request to the transport exactly once, in insertion order, leaving the
\* queue without them.
C6_OfflineReplay ==
    [][/\ \A r \in Req, st \in Statuses \ {200} :
            (~online /\ \E left \in BOOLEAN : Respond(r, st, left)) =>
                \/ pc'[r] = "retrywait" /\ offlineQueue' = offlineQueue
                \/ pc'[r] = "offq" /\ offlineQueue' = Append(offlineQueue, r)
       /\ GoOnline => (sent' = offlineQueue /\ offlineQueue' = <<>>)]_vars

\* C7: cancelAllRequests() cancels every registered handle, so that each of
\* their requests still at the transport rejects with the cancellation error,
\* and leaves the registry empty: the call aborts these requests, and the
\* promise jobs that follow it reject each aborted request with the reason
\* its token was cancelled with.
C7_CancelAllRejects ==
    [][/\ CancelAllRequests =>
            /\ cancelTokenSources' = <<>>
            /\ \A r \in Req :
                  (Registered(cancelTokenSources, r) /\ pc[r] = "inflight") =>
                      /\ Registered(aborted', r)
                      /\ token'[r] = "Canceled by user"
       /\ Microtasks =>
            \A r \in Req :
                Registered(aborted, r) =>
                    /\ pc'[r] = "rejected"
                    /\ outcome'[r].message = token[r]]_vars

\* C8: a handle leaves the registry when it is cancelled or when its request
\* settles, so no registered handle belongs to a settled request.
C8_SettledHandlesRemoved ==
    \A r \in Req : Registered(cancelTokenSources, r) => pc[r] \notin {"resolved", "rejected"}

\* the request in slot r has been resubmitted after a refresh: with no
\* tokenProvider and no default header, only that puts a credential on a
\* request
Resubmitted(r) ==
    providerToken = NoToken /\ defaultHeader = NoToken /\ authHeader[r] # NoToken

\* C12: a request triggers at most one refresh and one resubmission: a request
\* that has been resubmitted after a refresh and is answered 401 again (the
\* client being online) is rejected, not refreshed for or resubmitted again.
C12_RefreshOncePerRequest ==
    [][\A r \in Req :
          (Resubmitted(r) /\ online /\ \E left \in BOOLEAN : Respond(r, 401, left)) =>
              pc'[r] = "rejected"]_vars

\* the request interceptor runs for request r in this step: r is a new
\* request, a retry, a replay from the offline queue, or a resubmission after
\* a refresh
SubmittedNow(r) ==
    \/ Microtasks /\ Registered(pending, r)
    \/ RetryFires(r)
    \/ GoOnline /\ Registered(offlineQueue, r)
    \/ \E q \in Req, t \in Tokens :
          RefreshResolves(q, t) /\ (q = r \/ Registered(refreshSubscribers, r))

\* C13: a request blocked by the open breaker is rejected at once with the
\* circuit-open error: it is not put in the offline queue, also when the
\* client is offline, it is not kept for a retry, and nothing reaches the
\* transport in that step.
C13_BlockedRejectedAtOnce ==
    [][\A r \in Req :
          (IsCircuitOpen(St).open /\ SubmittedNow(r)) =>
              /\ pc'[r] = "rejected"
              /\ outcome'[r].message = CircuitMessage
              /\ ~Registered(offlineQueue', r)
              /\ sent' = <<>>]_vars

\* C16: the waiter list is drained and cleared once per completed refresh, so
\* it is empty in every state in which no refresh is in flight.
C16_WaitersEmptyWhenIdle ==
    RefreshInFlight = {} => refreshSubscribers = <<>>

\* C17: after a refresh has succeeded with token T, every request resubmitted
\* for it (the initiator's and each waiter's) that reaches the transport
\* carries T, whatever tokenProvider returns.
C17_ResubmittedWithNewToken ==
    [][\A r \in Req, t \in Tokens :
          RefreshResolves(r, t) =>
              \A i \in DOMAIN sent' : authHeader'[sent'[i]] = t]_vars

\* C18: circuitOpenedAt is set when the breaker opens and stays as it is while
\* the breaker is open, whether in-flight requests fail or requests are blocked
\* meanwhile, so that the first request issued more than the cooldown after the
\* opening is let through.
C18_OpenedAtKept ==
    [][(circuitOpen /\ circuitOpen') => circuitOpenedAt' = circuitOpenedAt]_vars

\* C19: a successful response sets failureCount to 0 and leaves circuitOpen
\* and circuitOpenedAt as they are; the breaker goes from open to closed only
\* in the cooldown check of a request being submitted, more than the cooldown
\* after circuitOpenedAt, and failureCount is 0 after that step.
C19_SuccessKeepsBreaker ==
    [][/\ \A r \in Req :
            (\E left \in BOOLEAN : Respond(r, 200, left)) =>
                /\ failureCount' = 0
                /\ UNCHANGED <<circuitOpen, circuitOpenedAt>>
       /\ (circuitOpen /\ ~circuitOpen') =>
                /\ now - circuitOpenedAt > circuitBreakerCooldown
                /\ \E r \in Req : SubmittedNow(r)
                /\ failureCount' = 0
                /\ circuitOpenedAt' = circuitOpenedAt]_vars

\* C19 witness: a request has succeeded while the breaker was open and holding
C19_Witness ==
    /\ BreakerHolding
    /\ failureCount = 0
    /\ \E r \in Req : pc[r] = "resolved"

\* C22: every rejection handed to a caller, whatever it comes from, has the
\* normalized shape, with the message of the status table when the status
\* is one of the table's.
C22_RejectionsNormalized ==
    \A r \in Req :
        pc[r] = "rejected" =>
            /\ outcome[r].shape = "normalized"
            /\ outcome[r].status \in DOMAIN errorMessages =>
                  outcome[r].message = errorMessages[outcome[r].status]

\* C24: isRefreshing is true exactly while a refreshToken() call is pending:
\* it is false again once the refresh has completed, with success or with
\* failure.
C24_FlagOnlyWhilePending ==
    isRefreshing <=> RefreshInFlight # {}

(* ====================== properties of throttling ====================== *)
\* when call n's requestFn ran; callable only once it has
DispatchTime(n) ==
    (CHOOSE d \in {thDispatched[i] : i \in DOMAIN thDispatched} : d.call = n).at

IsDispatched(n) == \E i \in DOMAIN thDispatched : thDispatched[i].call = n

\* C5: of two throttleRequest calls within limitMs, the first runs its
\* requestFn at once and the second no earlier than limitMs after the first
\* ran; lastRequestTime is the time of the latest run of a requestFn, not the
\* time of a call.
C5_ThrottleSecondCall ==
    /\ Len(thCalls) >= 1 => IsDispatched(1) /\ DispatchTime(1) = thCalls[1].at
    /\ (Len(thCalls) >= 2 /\ IsDispatched(2)
            /\ thCalls[2].at - thCalls[1].at < thCalls[2].limitMs)
          => DispatchTime(2) >= DispatchTime(1) + thCalls[2].limitMs
    /\ thDispatched # <<>> => lastRequestTime = thDispatched[Len(thDispatched)].at

\* C5 witness: the second call came within limitMs, was delayed and has run
C5_Witness ==
    /\ Len(thCalls) >= 2
    /\ thCalls[2].at - thCalls[1].at < thCalls[2].limitMs
    /\ IsDispatched(2)
    /\ DispatchTime(2) > thCalls[2].at

\* C20: the throttle state is shared by all calls: when every throttleRequest
\* call is made with the same limitMs, any two requestFn runs that follow one
\* another are at least limitMs apart.
C20_ThrottleSpacing ==
    \A limitMs \in 1..MaxLimit :
        (\A i \in DOMAIN thCalls : thCalls[i].limitMs = limitMs) =>
            \A k \in 1..(Len(thDispatched) - 1) :
                thDispatched[k + 1].at - thDispatched[k].at >= limitMs

(* ======================= properties of debounce ======================= *)
\* the GETs that were made for promise p, the retries of a GET apart
GetsFor(p) == {i \in DOMAIN dbGets : dbGets[i].promise = p /\ dbGets[i].attempt = 0}

\* C4: two debounceGet calls with the same url and params within the wait
\* window return the same promise and lead to exactly one GET, made once the
\* later call's wait has elapsed: after the second call the one GET either has
\* been made, no earlier than that, or is still scheduled.
C4_DebounceOneRequest ==
    \A i, j \in DOMAIN dbCalls :
        (j = i + 1 /\ dbCalls[i].key = dbCalls[j].key
                   /\ dbCalls[j].at - dbCalls[i].at < dbCalls[i].wait)
        => /\ dbCalls[j].promise = dbCalls[i].promise
           /\ \/ /\ GetsFor(dbCalls[j].promise) = {}
                 /\ \E t \in dbTimers : t.promise = dbCalls[j].promise
              \/ /\ Cardinality(GetsFor(dbCalls[j].promise)) = 1
                 /\ \A g \in GetsFor(dbCalls[j].promise) :
                        dbGets[g].at >= dbCalls[j].at + dbCalls[j].wait

\* C21: every entry placed in the debounce map is removed in the end, by its
\* timer, which also makes the GET that settles the promise the entry holds.
\* Only the timer callback removes an entry, so every entry in the map has its
\* timer pending; an entry without one stays for ever, and every later call
\* with its key is handed a promise that never settles.
C21_EntryHasTimer ==
    \A k \in DebounceKeys :
        debounceMap[k] # NoEntry =>
            \E t \in dbTimers : t.id = debounceMap[k].timeoutId /\ t.key = k

(* =================== properties of the rate-limit queue =============== *)
\* the thunks are invoked in the order they were enqueued, each once (those
\* invoked are 1..k in this order and those queued are the next ones), and at
\* most one drain timer is pending
QueueInOrder ==
    /\ quInvoked = [i \in 1..Len(quInvoked) |-> i]
    /\ queue = [i \in 1..Len(queue) |-> Len(quInvoked) + i]
    /\ Len(quInvoked) + Len(queue) = quCount
    /\ Len(quTimers) <= 1

\* C10: the thunks are invoked in the order they were enqueued, each once, at
\* most one drain loop is active, and every thunk enqueued is invoked in the
\* end.  Only processQueue invokes a thunk, and a thunk that waits in the
\* queue is invoked by the timer callback only: so a drain timer is pending
\* whenever a thunk waits.
C10_QueueFifo ==
    /\ []QueueInOrder
    /\ [](queue # <<>> => quTimers # <<>>)
    /\ []<>(Len(quInvoked) = quCount)

\* C11: any two consecutive invocations of thunks are at least rateLimitDelay
\* apart, also when a thunk is enqueued after the queue has drained and before
\* the drain timer has fired: a step that invokes a thunk is taken only when
\* rateLimitDelay has passed since the invocation before it (quSince counts the
\* time since then, up to rateLimitDelay).
C11_QueueSpacing ==
    [][Len(quInvoked') > Len(quInvoked) => quSince >= rateLimitDelay]_vars

\* C11 witness: a thunk enqueued while the queue was empty and the timer still
\* pending has just been invoked by that timer
C11_Witness ==
    /\ Len(quInvoked) >= 2
    /\ quSince = 0
    /\ queue = <<>>
    /\ isProcessingQueue

(* ======================= properties of pagination ===================== *)
RECURSIVE PagesData(_, _)
PagesData(n, limit) ==
    IF n = 0 THEN <<>> ELSE PagesData(n - 1, limit) \o ServerData(n, limit)

\* the page requests first handed to the transport, the retries apart
FirstAttempts == SelectSeq(pgRequests, LAMBDA q : q.attempt = 0)

\* C9: against a server that reports N >= 1 pages on every response,
\* fetchAllPages requests the pages 1..N in this order and no other, each
\* once (a retry of axios-retry apart, which asks for the same page again
\* before the next), and returns their items in page order; with no page
\* count it makes one request.
C9_FetchAllPages ==
    /\ \A i \in DOMAIN FirstAttempts : FirstAttempts[i].page = i
    /\ \A i, j \in DOMAIN pgRequests : i < j => pgRequests[i].page <= pgRequests[j].page
    /\ \A n \in 1..MaxPages :
          pgServer = DecimalString(n) =>
              /\ Len(FirstAttempts) <= n
              /\ pgPc = "done" => /\ Len(FirstAttempts) = n
                                  /\ pgResults = PagesData(n, pgLimit)
    /\ (pgServer = <<>> /\ pgPc = "done") =>
          Len(FirstAttempts) = 1 /\ pgResults = PagesData(1, pgLimit)

\* C9 witness: a walk over three pages has returned, with three requests
C9_Witness ==
    /\ pgPc = "done"
    /\ pgServer = <<"3">>
    /\ pgRequests = [i \in 1..3 |-> [page |-> i, attempt |-> 0]]

(* ======================= properties of the logger ===================== *)
\* C14: in silent mode, which only logger.silent enters and leaves, a call of
\* debug/info/warn/error or of timer().end() has no effect: the history buffer
\* and the batch buffer stay as they are, nothing is written to the console
\* and sendToServer is not called, whatever the config is.
C14_SilentMode ==
    [][/\ (silentMode /\ lgCount' # lgCount) =>
              /\ UNCHANGED <<historyBuffer, batchBuffer, config, silentMode>>
              /\ lgConsole' = <<>>
              /\ lgServer' = <<>>
       /\ silentMode' # silentMode => \E mode \in BOOLEAN : Silent(mode)]_vars

\* C14 witness: the logger is silent and, of two log calls, the second has
\* left no trace under a config that lets every entry through to the server
C14_Witness ==
    /\ silentMode
    /\ lgCount = 2
    /\ historyBuffer = <<[level |-> "debug", tag |-> NoTag, n |-> 1]>>
    /\ batchBuffer = historyBuffer
    /\ lgConsole = <<>>
    /\ lgServer = <<>>
    /\ config = [DefaultConfig EXCEPT !.sendToServer = TRUE, !.batch = TRUE]

\* C15: when allowedTags is not empty, every entry a log call emits (puts in
\* the history, writes to the console or passes to sendToServer) has a tag
\* that is one of allowedTags.
C15_TagFilter ==
    [][(lgCount' # lgCount /\ Len(config.allowedTags) # 0) =>
          /\ \A i \in DOMAIN lgConsole' : Includes(config.allowedTags, lgConsole'[i].tag)
          /\ historyBuffer' # historyBuffer =>
                Includes(config.allowedTags, historyBuffer'[Len(historyBuffer')].tag)
          /\ \A b \in DOMAIN lgServer' :
                Includes(config.allowedTags, lgServer'[b][Len(lgServer'[b])].tag)]_vars

\* config.batchSize || 10
BatchSizeOf(c) == IF c.batchSize # NoBatchSize THEN c.batchSize ELSE DefaultBatchSize

LastOf(seq, k) ==
    IF Len(seq) <= k THEN seq ELSE SubSeq(seq, Len(seq) - k + 1, Len(seq))

\* C25: after any sequence of log, config, silent, clearHistory and getHistory
\* calls the history buffer holds at most 100 entries: the most recent of the
\* entries accepted since it was cleared, in the order they were logged.
\* getHistory returns these entries in an array of its own: a caller that
\* changes the array does not change the buffer.
C25_HistoryBound ==
    /\ [](Len(historyBuffer) <= HistoryLimit)
    /\ [](historyBuffer = LastOf(lgLogged, HistoryLimit))
    /\ [][/\ GetHistory => lgCopy'.items = historyBuffer
          /\ (\E op \in {"pop", "clear"} : MutateCopy(op)) =>
                historyBuffer' = historyBuffer]_vars

\* C25 witness: the buffer is full with its oldest entries evicted, and a
\* caller has emptied the array getHistory gave it
C25_Witness ==
    /\ Len(historyBuffer) = HistoryLimit
    /\ Len(lgLogged) > HistoryLimit
    /\ lgCopy.ref # "none"
    /\ lgCopy.items = <<>>

====

